---- MODULE Spec2Model ----
(***************************************************************************)
(* nof1-tracker (next-gen): guard pipeline, decision builder, command      *)
(* handlers and the venue executors (OKX net / long_short, Binance).       *)
(*                                                                         *)
(* Quantities, prices, balances and contract counts are integers: one unit *)
(* is one quantum of the venue (far above the 1e-8 / 1e-10 epsilons of the *)
(* code), so divisions of the code are stated as cross-multiplications and *)
(* Math.floor / Math.ceil as integer division.                             *)
(***************************************************************************)
EXTENDS Integers, Sequences, FiniteSets, TLC

VARIABLES
    pin,          \* input of one guard-pipeline run: signal, guards, simulate flag, clock
    evaluation,   \* GuardEvaluation returned by runGuards for pin (or NoEval)
    decision,     \* Decision returned by buildDecision for pin (or NoDecision)
    opts,         \* CliOptions of the process: simulate, execute, guards
    signalLog,    \* raw-signals.ndjson
    decisionLog,  \* decisions.ndjson
    batch,        \* what the last command did: bundles, decisions, executor calls
    prevFetch,    \* (agent, symbol) -> entryOid observed by the previous fetch cycle
    now,          \* Date.now() in ms
    env,          \* process environment of the executor: venue, POS_MODE, FORCE_REDUCE_ONLY
    venue,        \* venue account: position legs (contracts) and available balance
    exec,         \* the last executor.execute call: snapshot, orders sent, report
    watch,        \* handleWatch: position in the loop and iterations started
    wstate        \* a WatchState, the objects it refers to, the last filter result

vars == <<pin, evaluation, decision, opts, signalLog, decisionLog, batch,
          prevFetch, now, env, venue, exec, watch, wstate>>

pureVars == <<pin, evaluation, decision>>
cliVars  == <<opts, signalLog, decisionLog, batch, prevFetch, now>>
execVars == <<env, venue, exec>>
loopVars == <<watch>>
stateVars == <<wstate>>

(***************************************************************************)
(* Bounds                                                                  *)
(***************************************************************************)
MaxGuards == 2      \* longest guard list drawn for one pipeline run

Abs(x) == IF x < 0 THEN -x ELSE x
Sign(x) == IF x > 0 THEN 1 ELSE IF x < 0 THEN -1 ELSE 0
Min(a, b) == IF a < b THEN a ELSE b
Max(a, b) == IF a > b THEN a ELSE b

RECURSIVE SeqsUpTo(_, _)
SeqsUpTo(S, n) ==
    IF n = 0 THEN {<<>>}
    ELSE LET shorter == SeqsUpTo(S, n - 1)
         IN  shorter \cup {Append(s, x) : s \in {t \in shorter : Len(t) = n - 1}, x \in S}

NoEval == [results |-> <<>>, passed |-> FALSE, calls |-> <<>>, none |-> TRUE]
NoDecision == [action |-> "NONE"]
NoExecution == [attached |-> FALSE]

(***************************************************************************)
(* Guards                                                                  *)
(***************************************************************************)
\* A price guard whose tolerance bound is exclusive
PriceGuardCheckExclusive(tolerance, signal) ==
    IF signal.entryPrice <= 0
    THEN [guard |-> "PriceGuard", passed |-> FALSE, reason |-> "Invalid entry price detected"]
    ELSE LET diff == Abs(signal.currentPrice - signal.entryPrice)
             passed == diff * 100 < tolerance * signal.entryPrice
         IN  [guard |-> "PriceGuard", passed |-> passed,
              reason |-> IF passed THEN "within tolerance" ELSE "exceeds tolerance"]

\* PriceGuard.check: diffPercent = |current - entry| / entry * 100 <= tolerance
PriceGuardCheck(tolerance, signal) ==
    IF signal.entryPrice <= 0
    THEN [guard |-> "PriceGuard", passed |-> FALSE, reason |-> "Invalid entry price detected"]
    ELSE LET diff == Abs(signal.currentPrice - signal.entryPrice)
             passed == diff * 100 <= tolerance * signal.entryPrice
         IN  [guard |-> "PriceGuard", passed |-> passed,
              reason |-> IF passed THEN "within tolerance" ELSE "exceeds tolerance"]

\* A notional guard whose limit is exclusive
NotionalGuardCheckExclusive(maxNotional, signal) ==
    LET notional == signal.quantity * signal.entryPrice
        passed == notional < maxNotional
    IN  [guard |-> "NotionalGuard", passed |-> passed,
         reason |-> IF passed THEN "within limit" ELSE "exceeds limit"]

\* NotionalGuard.check: quantity * entryPrice <= maxNotional
NotionalGuardCheck(maxNotional, signal) ==
    LET notional == signal.quantity * signal.entryPrice
        passed == notional <= maxNotional
    IN  [guard |-> "NotionalGuard", passed |-> passed,
         reason |-> IF passed THEN "within limit" ELSE "exceeds limit"]

\* AgeGuard.getSignalTimestamp: signalTimestamp ?? receivedAt, parsed; null when
\* absent or unparseable (hasTs = FALSE)
getSignalTimestamp(signal) ==
    IF signal.hasTs THEN [null |-> FALSE, ms |-> signal.ts] ELSE [null |-> TRUE, ms |-> 0]

\* AgeGuard.check: `!signalTs` holds for null and for a timestamp that parses to 0
AgeGuardCheck(maxAgeSeconds, signal, nowMs) ==
    LET parsed == getSignalTimestamp(signal)
        signalTs == parsed.ms
    IN  IF parsed.null \/ signalTs = 0
        THEN [guard |-> "AgeGuard", passed |-> TRUE,
              reason |-> "Signal timestamp unavailable; skipping age check"]
        ELSE LET ageMs == nowMs - signalTs
                 passed == ageMs <= maxAgeSeconds * 1000
             IN  [guard |-> "AgeGuard", passed |-> passed,
                  reason |-> IF passed THEN "within limit" ELSE "exceeds limit"]

\* Guard.check, dispatched on the concrete guard
GuardCheck(g, signal, nowMs) ==
    CASE g.name = "PriceGuard"    -> PriceGuardCheck(g.param, signal)
      [] g.name = "NotionalGuard" -> NotionalGuardCheck(g.param, signal)
      [] g.name = "AgeGuard"      -> AgeGuardCheck(g.param, signal, nowMs)

\* A runner that stops at the first failing guard (what runGuards must not do)
RunGuardsShortCircuit(signal, nowMs, guards) ==
    LET all == [i \in 1..Len(guards) |-> GuardCheck(guards[i], signal, nowMs)]
        failing == {i \in 1..Len(guards) : ~all[i].passed}
        stop == IF failing = {} THEN Len(guards)
                ELSE CHOOSE i \in failing : \A j \in failing : i <= j
    IN  [results |-> SubSeq(all, 1, stop),
         passed |-> failing = {},
         calls |-> [i \in 1..stop |-> i],
         none |-> FALSE]

\* runGuards: guards.map(check) then results.every(passed); `calls` lists the
\* indexes of the guards whose check was invoked, in invocation order
RunGuards(signal, nowMs, guards) ==
    IF Len(guards) = 0
    THEN [results |-> <<>>, passed |-> TRUE, calls |-> <<>>, none |-> FALSE]
    ELSE LET results == [i \in 1..Len(guards) |-> GuardCheck(guards[i], signal, nowMs)]
         IN  [results |-> results,
              passed |-> \A i \in 1..Len(results) : results[i].passed,
              calls |-> [i \in 1..Len(guards) |-> i],
              none |-> FALSE]

(***************************************************************************)
(* Decision builder                                                        *)
(***************************************************************************)
\* generateDecisionId: `${agentId}-${symbol}-${entryOid}-${Date.now()}`
generateDecisionId(signal, nowMs) ==
    <<signal.agentId, signal.symbol, signal.entryOid, nowMs>>

\* evaluation.results.find(r => !r.passed): index of the first failing result, 0 if none
FirstFailing(results) ==
    LET failing == {i \in 1..Len(results) : ~results[i].passed}
    IN  IF failing = {} THEN 0 ELSE CHOOSE i \in failing : \A j \in failing : i <= j

\* A builder that lets the guard verdict win over the simulate flag
BuildDecisionGuardsFirst(signal, ev, simulate, nowMs) ==
    LET failing == FirstFailing(ev.results)
    IN  [id |-> generateDecisionId(signal, nowMs),
         action |-> IF ~ev.passed THEN "SKIP" ELSE IF simulate THEN "SIMULATE" ELSE "EXECUTE",
         reasonCode |-> IF failing # 0 THEN ev.results[failing].guard \o "_FAIL"
                        ELSE IF simulate THEN "SIMULATED" ELSE "GUARDS_PASS",
         signal |-> signal,
         guards |-> ev.results,
         execution |-> NoExecution]

\* A builder that reports the last failing guard instead of the first
BuildDecisionLastFailing(signal, ev, simulate, nowMs) ==
    LET failing == {i \in 1..Len(ev.results) : ~ev.results[i].passed}
        last == IF failing = {} THEN 0 ELSE CHOOSE i \in failing : \A j \in failing : i >= j
    IN  [id |-> generateDecisionId(signal, nowMs),
         action |-> IF simulate THEN "SIMULATE" ELSE IF ev.passed THEN "EXECUTE" ELSE "SKIP",
         reasonCode |-> IF last # 0 THEN ev.results[last].guard \o "_FAIL"
                        ELSE IF simulate THEN "SIMULATED" ELSE "GUARDS_PASS",
         signal |-> signal,
         guards |-> ev.results,
         execution |-> NoExecution]

\* buildDecision
BuildDecision(signal, ev, simulate, nowMs) ==
    LET baseAction == IF ev.passed THEN "EXECUTE" ELSE "SKIP"
        action == IF simulate THEN "SIMULATE" ELSE baseAction
        failingGuard == FirstFailing(ev.results)
        reasonCode == IF failingGuard # 0 THEN ev.results[failingGuard].guard \o "_FAIL"
                      ELSE IF simulate THEN "SIMULATED" ELSE "GUARDS_PASS"
    IN  [id |-> generateDecisionId(signal, nowMs),
         action |-> action,
         reasonCode |-> reasonCode,
         signal |-> signal,
         guards |-> ev.results,
         execution |-> NoExecution]

(***************************************************************************)
(* Command handlers: signal intake, processSignalBundles, executeDecisions,*)
(* persistDecisions                                                        *)
(***************************************************************************)
IntervalSeconds == 60   \* handleWatch: options.interval ?? 60

Unset == [set |-> FALSE, v |-> 0]
Value(x) == [set |-> TRUE, v |-> x]

\* buildSignal: side from the sign of the source quantity, quantity = |quantity|,
\* signalTimestamp = receivedAt
buildSignal(position, receivedAt) ==
    [agentId |-> position.model_id,
     symbol |-> position.symbol,
     side |-> IF position.quantity >= 0 THEN "LONG" ELSE "SHORT",
     quantity |-> Abs(position.quantity),
     entryPrice |-> position.entry_price,
     entryOid |-> position.entry_oid,
     currentPrice |-> position.current_price,
     hasTs |-> TRUE,
     ts |-> receivedAt]

\* buildBundlesFromAccounts: one bundle per position of every account, in order
buildBundlesFromAccounts(accounts, receivedAt) ==
    [i \in 1..Len(accounts) |-> buildSignal(accounts[i], receivedAt)]

\* resolveGuardNames: --guards when given, else price (+ age, + notional when their
\* parameter is defined)
resolveGuardNames(o) ==
    IF Len(o.guards) > 0 THEN o.guards
    ELSE <<"price">> \o (IF o.maxAge.set THEN <<"age">> ELSE <<>>)
                     \o (IF o.maxNotional.set THEN <<"notional">> ELSE <<>>)

\* createGuardPipeline, one name of the loop: the guard pushed for it, if any
GuardForName(name, o) ==
    CASE name = "price" ->
             <<[name |-> "PriceGuard",
                param |-> IF o.priceTolerance.set THEN o.priceTolerance.v ELSE 1]>>
      [] name = "age" ->
             IF o.maxAge.set THEN <<[name |-> "AgeGuard", param |-> o.maxAge.v]>> ELSE <<>>
      [] name = "notional" ->
             IF o.maxNotional.set
             THEN <<[name |-> "NotionalGuard", param |-> o.maxNotional.v]>> ELSE <<>>
      [] OTHER -> <<>>

RECURSIVE PushGuards(_, _, _)
PushGuards(names, i, o) ==
    IF i > Len(names) THEN <<>>
    ELSE GuardForName(names[i], o) \o PushGuards(names, i + 1, o)

\* createGuardPipeline: the guards in configuration order; a guard constructor
\* throws on a threshold <= 0
createGuardPipeline(o) ==
    LET guards == PushGuards(resolveGuardNames(o), 1, o)
    IN  [threw |-> \E i \in 1..Len(guards) : guards[i].param <= 0,
         guards |-> guards]

\* buildRecord
buildRecord(normalized, guards, guardPassed, receivedAt) ==
    [normalized |-> normalized, guards |-> guards, guardPassed |-> guardPassed,
     receivedAt |-> receivedAt]

\* processSignalBundles: bundle i is evaluated and decided at time t0 + (i - 1) * dt
processSignalBundles(bundles, guardPipeline, o, t0, dt) ==
    LET at(i) == t0 + (i - 1) * dt
        evaluations == [i \in 1..Len(bundles) |-> RunGuards(bundles[i], at(i), guardPipeline)]
        decisions == [i \in 1..Len(bundles) |->
                         BuildDecision(bundles[i], evaluations[i], o.simulate, at(i))]
        rawRecords == [i \in 1..Len(bundles) |->
                          buildRecord(bundles[i], decisions[i].guards,
                                      \A k \in 1..Len(decisions[i].guards) :
                                          decisions[i].guards[k].passed,
                                      at(i))]
    IN  [evaluations |-> evaluations, decisions |-> decisions, rawRecords |-> rawRecords]

\* persistDecisions rewriting the decision log with the batch instead of appending
persistDecisionsOverwrite(log, decisions, shouldPersist) ==
    IF ~shouldPersist \/ Len(decisions) = 0 THEN log ELSE decisions

\* persistDecisions keeping only the decisions that were to be executed
persistDecisionsExecuteOnly(log, decisions, shouldPersist) ==
    IF ~shouldPersist \/ Len(decisions) = 0 THEN log
    ELSE log \o SelectSeq(decisions, LAMBDA d : d.action = "EXECUTE")

\* persistDecisions
persistDecisions(log, decisions, shouldPersist) ==
    IF ~shouldPersist \/ Len(decisions) = 0 THEN log ELSE log \o decisions

\* RawSignalStore.appendMany
appendMany(log, records) == IF Len(records) = 0 THEN log ELSE log \o records

ExecOutcomes == {"success", "failed", "threw"}

\* executeDecisions, the execution attached to a decision for an outcome of
\* executor.execute: a report (success or not) or a thrown error
ExecutionOf(d, outcome) ==
    [attached |-> TRUE, decisionId |-> d.id, success |-> outcome = "success",
     threw |-> outcome = "threw"]

\* the filter of executeDecisions: decision.action === "EXECUTE"
Selected(d, all) == all \/ d.action = "EXECUTE"

\* indexes of the selected decisions, in order
RECURSIVE Picked(_, _, _)
Picked(decisions, i, all) ==
    IF i > Len(decisions) THEN <<>>
    ELSE (IF Selected(decisions[i], all) THEN <<i>> ELSE <<>>) \o Picked(decisions, i + 1, all)

\* executeDecisions body; `all` hands every decision to the executor instead of
\* the EXECUTE ones only
ExecuteSelected(decisions, o, outs, all) ==
    IF ~o.execute \/ o.simulate
    THEN [decisions |-> decisions, calls |-> <<>>]
    ELSE LET executable == Picked(decisions, 1, all)
         IN  [decisions |->
                  [i \in 1..Len(decisions) |->
                      IF Selected(decisions[i], all)
                      THEN [decisions[i] EXCEPT
                               !.execution = ExecutionOf(decisions[i], outs[i])]
                      ELSE decisions[i]],
              calls |->
                  [k \in 1..Len(executable) |->
                      [decisionId |-> decisions[executable[k]].id,
                       action |-> decisions[executable[k]].action,
                       at |-> executable[k]]]]

\* An executeDecisions that hands every decision to the executor
executeDecisionsUnfiltered(decisions, o, outs) ==
    ExecuteSelected(decisions, o, outs, TRUE)

\* An executeDecisions without the catch: the first thrown error ends the loop,
\* the decision it was thrown for and every later one stay without execution
executeDecisionsNoCatch(decisions, o, outs) ==
    LET full == ExecuteSelected(decisions, o, outs, FALSE)
        thrown == {i \in 1..Len(decisions) :
                      full.decisions[i].execution.attached /\ outs[i] = "threw"}
        first == IF thrown = {} THEN Len(decisions) + 1
                 ELSE CHOOSE i \in thrown : \A j \in thrown : i <= j
    IN  [decisions |-> [i \in 1..Len(decisions) |->
                           IF i < first THEN full.decisions[i] ELSE decisions[i]],
         calls |-> SelectSeq(full.calls, LAMBDA c : c.at <= first)]

\* executeDecisions: nothing unless --execute and not --simulate; then every
\* decision with action EXECUTE, in order, gets the executor's report attached
executeDecisions(decisions, o, outs) ==
    ExecuteSelected(decisions, o, outs, FALSE)

\* the outcomes executor.execute can have for the decisions of a batch, by
\* position in the batch (drawn only where the executor is called)
OutcomesFor(decisions, o) ==
    {outs \in [1..Len(decisions) -> ExecOutcomes] :
        \A i \in 1..Len(decisions) :
            (~o.execute \/ o.simulate \/ decisions[i].action # "EXECUTE") => outs[i] = "success"}

(***************************************************************************)
(* Venue executors: OkxExecutor (net and long_short mode), BinanceExecutor *)
(* and SimulatorExecutor.  Sizes of OKX orders and positions are contracts *)
(* (one contract is ctVal units of the asset); Binance sizes are units.    *)
(***************************************************************************)
OrElse(x, d) == IF x = 0 THEN d ELSE x      \* `x || d` on numbers

IsBuy(side) == side \in {"buy", "BUY"}

PreparedOrder(side, quantity, reduceOnly, posSide) ==
    [side |-> side, quantity |-> quantity, reduceOnly |-> reduceOnly, posSide |-> posSide]

\* one request to the venue's order (kind "order") or protective-order
\* (kind "algo", "tp", "sl") endpoint and whether the venue accepted it
Submitted(kind, side, sz, reduceOnly, posSide, accepted) ==
    [kind |-> kind, side |-> side, sz |-> sz, reduceOnly |-> reduceOnly,
     posSide |-> posSide, accepted |-> accepted]

Report(success, message) == [success |-> success, message |-> message]

\* An outcome in which a rejected protective order fails the whole call
OutcomeFailingWithStops(planned, orders, report) ==
    [planned |-> planned, orders |-> orders,
     report |-> IF \E k \in 1..Len(orders) : orders[k].kind # "order" /\ ~orders[k].accepted
                THEN [success |-> FALSE, message |-> "execution_failed"]
                ELSE report]

Outcome(planned, orders, report) ==
    [planned |-> planned, orders |-> orders, report |-> report]

\* verifyQuantity with quantity in asset units: contractsRaw / lotSize is
\* quantity / (ctVal * lotSize)
verifyQuantity(quantity, instrument, rounding) ==
    LET ctVal == OrElse(instrument.ctVal, 1)
        lotSize == OrElse(instrument.lotSz, 1)
        minSz == OrElse(instrument.minSz, lotSize)
        unit == ctVal * lotSize
        floored == (quantity \div unit) * lotSize
        ceiled == ((quantity + unit - 1) \div unit) * lotSize
        contracts == IF rounding = "down"
                     THEN (IF floored < minSz THEN 0 ELSE floored)
                     ELSE (IF ceiled < minSz THEN minSz ELSE ceiled)
    IN  IF quantity <= 0 \/ ctVal <= 0
        THEN [contracts |-> 0, adjustedQuantity |-> 0]
        ELSE [contracts |-> contracts, adjustedQuantity |-> contracts * ctVal]

RECURSIVE ExtractLegs(_, _, _)
ExtractLegs(positions, i, acc) ==
    IF i > Len(positions) THEN acc
    ELSE LET pos == positions[i]
             abs == Abs(pos.pos)
             next == IF pos.posSide = "long" THEN [acc EXCEPT !.longContracts = abs]
                     ELSE IF pos.posSide = "short" THEN [acc EXCEPT !.shortContracts = abs]
                     ELSE IF pos.pos > 0 THEN [acc EXCEPT !.longContracts = abs]
                     ELSE IF pos.pos < 0 THEN [acc EXCEPT !.shortContracts = abs]
                     ELSE acc
         IN  ExtractLegs(positions, i + 1, next)

extractLongShortContracts(positions) ==
    ExtractLegs(positions, 1, [longContracts |-> 0, shortContracts |-> 0])

isPureReductionIgnoringSign(currentContracts, targetContracts) ==
    IF targetContracts = 0 THEN currentContracts # 0
    ELSE IF currentContracts = 0 THEN FALSE
    ELSE Abs(targetContracts) < Abs(currentContracts)

isPureReduction(currentContracts, targetContracts) ==
    IF targetContracts = 0 THEN currentContracts # 0
    ELSE IF currentContracts = 0 THEN FALSE
    ELSE IF Sign(currentContracts) # Sign(targetContracts) THEN FALSE
    ELSE Abs(targetContracts) < Abs(currentContracts)

RECURSIVE SumPos(_, _)
SumPos(positions, i) ==
    IF i > Len(positions) THEN 0 ELSE positions[i].pos + SumPos(positions, i + 1)

\* A margin check on the whole target size
additionalContractsWholeTarget(current, target) == Abs(target)

\* executeInNetMode: additionalContracts = max(|target| - |current|, 0), here in
\* asset units
additionalContracts(current, target) == Max(Abs(target) - Abs(current), 0)

\* OkxExecutor.setupStops: one combined TP/SL algo order, failures swallowed
OkxSetupStops(dec, contracts, reduceOnly, posSide, resp) ==
    IF reduceOnly \/ contracts <= 0 THEN <<>>
    ELSE IF dec.exitPlan.profit_target = 0 /\ dec.exitPlan.stop_loss = 0 THEN <<>>
    ELSE <<Submitted("algo", IF dec.side = "LONG" THEN "sell" ELSE "buy",
                     contracts, TRUE, posSide, resp.tpOk)>>

\* executeInNetMode after the aligned check, shared by the variants below.
\* Signed sizes are in asset units (contracts * ctVal), which leaves every
\* comparison of the code unchanged.
NetModeOrder(dec, instrument, leverage, available, marketPrice, positions, force, resp) ==
    LET ctVal == OrElse(instrument.ctVal, 1)
        targetSigned == (IF dec.side = "LONG" THEN 1 ELSE -1) * dec.quantity
        currentNet == SumPos(positions, 1) * ctVal
        delta == targetSigned - currentNet
        orderSide == IF delta > 0 THEN "buy" ELSE "sell"
        desiredQuantity == Abs(delta)
        pureReduction == isPureReduction(currentNet, targetSigned)
        reduceOnly == force \/ pureReduction
        quantityCheck == verifyQuantity(desiredQuantity, instrument,
                                        IF reduceOnly THEN "down" ELSE "up")
        crossingZero == currentNet # 0 /\ Sign(currentNet) # Sign(targetSigned)
        additionalQuantity == additionalContracts(currentNet, targetSigned)
        planned == <<PreparedOrder(orderSide, desiredQuantity, reduceOnly, "net")>>
        primary(accepted) ==
            Submitted("order", orderSide, quantityCheck.contracts, reduceOnly, "net", accepted)
        stopContracts == verifyQuantity(dec.quantity, instrument, "down").contracts
        stops == IF ~reduceOnly /\ stopContracts > 0
                 THEN OkxSetupStops(dec, stopContracts, FALSE, "net", resp)
                 ELSE <<>>
    IN  IF force /\ ~pureReduction
        THEN Outcome(<<>>, <<>>, Report(FALSE, "force_reduce_only"))
        ELSE IF quantityCheck.contracts <= 0
        THEN Outcome(planned, <<>>, Report(FALSE, "below_minimum"))
        ELSE IF /\ ~reduceOnly /\ ~crossingZero /\ additionalQuantity > 0
                /\ available * leverage < additionalQuantity * marketPrice
        THEN Outcome(planned, <<>>, Report(FALSE, "insufficient_balance"))
        ELSE IF resp.failAt = 1 /\ resp.failKind = "before"
        THEN Outcome(planned, <<>>, Report(FALSE, "execution_failed"))
        ELSE IF resp.failAt = 1
        THEN Outcome(planned, <<primary(FALSE)>>, Report(FALSE, "execution_failed"))
        ELSE Outcome(planned, <<primary(TRUE)>> \o stops, Report(TRUE, "order_placed"))

executeInNetModeNoAlignedCheck(dec, instrument, leverage, available, marketPrice, positions, force, resp) ==
    NetModeOrder(dec, instrument, leverage, available, marketPrice, positions, force, resp)

executeInNetMode(dec, instrument, leverage, available, marketPrice, positions, force, resp) ==
    LET ctVal == OrElse(instrument.ctVal, 1)
        targetSigned == (IF dec.side = "LONG" THEN 1 ELSE -1) * dec.quantity
        currentNet == SumPos(positions, 1) * ctVal
    IN  IF targetSigned - currentNet = 0
        THEN Outcome(<<>>, <<>>, Report(TRUE, "aligned"))
        ELSE NetModeOrder(dec, instrument, leverage, available, marketPrice,
                          positions, force, resp)

\* the orders array of executeInLongShortMode, or the force-reduce rejection
\* (checkForce and closeWholeLeg are TRUE in the code)
PlanLegs(dec, legs, ctVal, force, checkForce, closeWholeLeg) ==
    LET long == dec.side = "LONG"
        same == IF long THEN legs.longContracts ELSE legs.shortContracts
        opposite == IF long THEN legs.shortContracts ELSE legs.longContracts
        samePos == IF long THEN "long" ELSE "short"
        oppositePos == IF long THEN "short" ELSE "long"
        opening == IF long THEN "buy" ELSE "sell"
        closing == IF long THEN "sell" ELSE "buy"
        closeQuantity == IF closeWholeLeg THEN opposite * ctVal
                         ELSE Min(opposite * ctVal, dec.quantity)
        closeOpposite == IF opposite > 0
                         THEN <<PreparedOrder(opening, closeQuantity, TRUE, oppositePos)>>
                         ELSE <<>>
        delta == dec.quantity - same * ctVal
        sameLeg == PreparedOrder(IF delta > 0 THEN opening ELSE closing, Abs(delta),
                                 delta < 0 \/ force, samePos)
    IN  IF checkForce /\ delta > 0 /\ force
        THEN [rejected |-> TRUE, orders |-> closeOpposite]
        ELSE [rejected |-> FALSE,
              orders |-> closeOpposite \o (IF delta # 0 THEN <<sameLeg>> ELSE <<>>)]

PlanLegOrdersNoForceCheck(dec, legs, ctVal, force) ==
    PlanLegs(dec, legs, ctVal, force, FALSE, TRUE)

PlanLegOrdersCloseRequested(dec, legs, ctVal, force) ==
    PlanLegs(dec, legs, ctVal, force, TRUE, FALSE)

PlanLegOrders(dec, legs, ctVal, force) ==
    PlanLegs(dec, legs, ctVal, force, TRUE, TRUE)

\* the submission loop of executeInLongShortMode; budget is available * leverage
RECURSIVE SubmitOrders(_, _, _, _, _, _, _)
SubmitOrders(orders, i, budget, sent, instrument, marketPrice, resp) ==
    IF i > Len(orders) THEN [sent |-> sent, failure |-> "none"]
    ELSE LET order == orders[i]
             quantityCheck == verifyQuantity(order.quantity, instrument,
                                             IF order.reduceOnly THEN "down" ELSE "up")
             notional == quantityCheck.adjustedQuantity * marketPrice
             nth == Len(sent) + 1
             request(accepted) ==
                 Submitted("order", order.side, quantityCheck.contracts, order.reduceOnly,
                           order.posSide, accepted)
         IN  IF order.quantity <= 0
             THEN SubmitOrders(orders, i + 1, budget, sent, instrument, marketPrice, resp)
             ELSE IF quantityCheck.contracts <= 0
             THEN (IF order.reduceOnly
                   THEN SubmitOrders(orders, i + 1, budget, sent, instrument, marketPrice, resp)
                   ELSE [sent |-> sent, failure |-> "below_minimum"])
             ELSE IF ~order.reduceOnly /\ budget < notional
             THEN [sent |-> sent, failure |-> "insufficient_balance"]
             ELSE IF resp.failAt = nth /\ resp.failKind = "before"
             THEN [sent |-> sent, failure |-> "execution_failed"]
             ELSE IF resp.failAt = nth
             THEN [sent |-> Append(sent, request(FALSE)), failure |-> "execution_failed"]
             ELSE SubmitOrders(orders, i + 1,
                               IF order.reduceOnly THEN budget ELSE budget - notional,
                               Append(sent, request(TRUE)), instrument, marketPrice, resp)

executeInLongShortMode(dec, instrument, leverage, available, marketPrice, positions, force, resp) ==
    LET ctVal == OrElse(instrument.ctVal, 1)
        legs == extractLongShortContracts(positions)
        plan == PlanLegOrders(dec, legs, ctVal, force)
        run == SubmitOrders(plan.orders, 1, available * leverage, <<>>, instrument,
                            marketPrice, resp)
        stopContracts == verifyQuantity(dec.quantity, instrument, "down").contracts
        stops == IF stopContracts > 0 /\ dec.quantity > 0
                 THEN OkxSetupStops(dec, stopContracts, FALSE,
                                    IF dec.side = "LONG" THEN "long" ELSE "short", resp)
                 ELSE <<>>
    IN  IF plan.rejected
        THEN Outcome(plan.orders, <<>>, Report(FALSE, "force_reduce_only"))
        ELSE IF plan.orders = <<>>
        THEN Outcome(<<>>, <<>>, Report(TRUE, "aligned"))
        ELSE IF run.failure # "none"
        THEN Outcome(plan.orders, run.sent, Report(FALSE, run.failure))
        ELSE IF run.sent = <<>>
        THEN Outcome(plan.orders, <<>>, Report(FALSE, "no_executable_orders"))
        ELSE Outcome(plan.orders, run.sent \o stops, Report(TRUE, "order_placed"))

\* extractPositions of the venue's answer: one "net" entry in net mode, one
\* entry per leg (sizes positive) in long_short mode
OkxPositions(v, posMode) ==
    IF posMode = "long_short"
    THEN <<[posSide |-> "long", pos |-> v.long], [posSide |-> "short", pos |-> v.short]>>
    ELSE IF v.net = 0 THEN <<>> ELSE <<[posSide |-> "net", pos |-> v.net]>>

Leverage(dec) == IF dec.leverage > 0 THEN dec.leverage ELSE 1

OkxExecute(dec, e, v, available, marketPrice, resp) ==
    IF ~e.credentials
    THEN Outcome(<<>>, <<>>, Report(FALSE, "missing_credentials"))
    ELSE IF ~resp.snapshot
    THEN Outcome(<<>>, <<>>, Report(FALSE, "execution_failed"))
    ELSE IF e.posMode = "long_short"
    THEN executeInLongShortMode(dec, v.meta, Leverage(dec), available, marketPrice,
                                OkxPositions(v, e.posMode), e.forceReduceOnly, resp)
    ELSE executeInNetMode(dec, v.meta, Leverage(dec), available, marketPrice,
                          OkxPositions(v, e.posMode), e.forceReduceOnly, resp)

\* BinanceHttpClient.adjustQuantity
adjustQuantity(quantity, filters) ==
    LET raised == IF quantity < filters.minQty THEN filters.minQty ELSE quantity
        stepped == IF filters.stepSize > 0
                   THEN (raised \div filters.stepSize) * filters.stepSize
                   ELSE raised
    IN  [threw |-> stepped <= 0, quantity |-> stepped]

\* BinanceExecutor.setupStops: a take-profit and a stop-loss order, each in
\* its own try / catch
BinanceSetupStops(dec, entrySide, quantity, filters, resp) ==
    LET stopSide == IF entrySide = "BUY" THEN "SELL" ELSE "BUY"
        adjusted == adjustQuantity(quantity, filters)
        stop(kind, accepted) ==
            IF adjusted.threw THEN <<>>
            ELSE <<Submitted(kind, stopSide, adjusted.quantity, TRUE, "net", accepted)>>
    IN  IF quantity <= 0 THEN <<>>
        ELSE (IF dec.exitPlan.profit_target > 0 THEN stop("tp", resp.tpOk) ELSE <<>>)
             \o (IF dec.exitPlan.stop_loss > 0 THEN stop("sl", resp.slOk) ELSE <<>>)

\* no reason code built by buildDecision contains "EXIT"
IncludesExit(reasonCode) == reasonCode = "EXIT"

BinanceExecute(dec, e, v, available, marketPrice, resp) ==
    LET currentAmt == v.net
        targetAmt == IF dec.side = "LONG" THEN dec.quantity ELSE -dec.quantity
        delta == targetAmt - currentAmt
        orderSide == IF delta > 0 THEN "BUY" ELSE "SELL"
        orderQuantity == Abs(delta)
        sameSign == currentAmt # 0 /\ targetAmt # 0 /\ Sign(currentAmt) = Sign(targetAmt)
        pureReduction == sameSign /\ Abs(targetAmt) < Abs(currentAmt)
        closingAll == targetAmt = 0 /\ currentAmt # 0
        forceReduceOnly == e.forceReduceOnly \/ IncludesExit(dec.reasonCode)
        reduceOnly == forceReduceOnly \/ pureReduction \/ closingAll
        crossingZero == currentAmt # 0 /\ targetAmt # 0 /\ Sign(currentAmt) # Sign(targetAmt)
        leverage == Leverage(dec)
        additionalQuantity ==
            IF currentAmt = 0 THEN Abs(targetAmt)
            ELSE IF sameSign THEN Max(Abs(targetAmt) - Abs(currentAmt), 0)
            ELSE Abs(targetAmt)
        planned == <<PreparedOrder(orderSide, orderQuantity, reduceOnly, "net")>>
        adjusted == adjustQuantity(orderQuantity, v.meta)
        primary(accepted) ==
            Submitted("order", orderSide, adjusted.quantity, reduceOnly, "net", accepted)
        finalExposure == Abs(targetAmt)
        stops == IF ~reduceOnly /\ finalExposure > 0
                 THEN BinanceSetupStops(dec, orderSide, finalExposure, v.meta, resp)
                 ELSE <<>>
    IN  IF ~e.credentials
        THEN Outcome(<<>>, <<>>, Report(FALSE, "missing_credentials"))
        ELSE IF ~resp.snapshot
        THEN Outcome(<<>>, <<>>, Report(FALSE, "execution_failed"))
        ELSE IF delta = 0
        THEN Outcome(<<>>, <<>>, Report(TRUE, "aligned"))
        ELSE IF forceReduceOnly /\ ~pureReduction /\ ~closingAll
        THEN Outcome(<<>>, <<>>, Report(FALSE, "force_reduce_only"))
        ELSE IF /\ ~reduceOnly /\ ~crossingZero /\ additionalQuantity > 0
                /\ available * leverage < additionalQuantity * marketPrice
        THEN Outcome(planned, <<>>, Report(FALSE, "insufficient_balance"))
        ELSE IF (resp.failAt = 1 /\ resp.failKind = "before") \/ adjusted.threw
        THEN Outcome(planned, <<>>, Report(FALSE, "execution_failed"))
        ELSE IF resp.failAt = 1
        THEN Outcome(planned, <<primary(FALSE)>>, Report(FALSE, "execution_failed"))
        ELSE Outcome(planned, <<primary(TRUE)>> \o stops, Report(TRUE, "order_placed"))

SimulatorExecute(dec) ==
    Outcome(<<>>, <<>>, Report(TRUE, "simulated"))

\* the venue's books after the accepted market orders of one call have
\* filled: a reduce-only order can only shrink the position or leg it names
FillOne(v, o) ==
    LET signed == IF IsBuy(o.side) THEN o.sz ELSE -o.sz
    IN  IF o.kind # "order" \/ ~o.accepted THEN v
        ELSE IF o.posSide = "long"
        THEN [v EXCEPT !.long = IF IsBuy(o.side) THEN @ + o.sz ELSE @ - Min(o.sz, @)]
        ELSE IF o.posSide = "short"
        THEN [v EXCEPT !.short = IF IsBuy(o.side) THEN @ - Min(o.sz, @) ELSE @ + o.sz]
        ELSE IF ~o.reduceOnly THEN [v EXCEPT !.net = @ + signed]
        ELSE IF v.net # 0 /\ Sign(signed) # Sign(v.net)
        THEN [v EXCEPT !.net = @ + Sign(signed) * Min(o.sz, Abs(@))]
        ELSE v

RECURSIVE Fill(_, _, _)
Fill(v, orders, i) ==
    IF i > Len(orders) THEN v ELSE Fill(FillOne(v, orders[i]), orders, i + 1)

\* the (agent, symbol) keys of the signal source
Keys == {<<"a1", "BTC">>, <<"a1", "ETH">>}
KeyOf(signal) == <<signal.agentId, signal.symbol>>
NoObservation == [k \in Keys |-> 0]

(***************************************************************************)
(* Idle values of the variables a specification does not use               *)
(***************************************************************************)
IdlePure == pin = [none |-> TRUE] /\ evaluation = NoEval /\ decision = NoDecision
IdleCli ==
    /\ opts = [none |-> TRUE]
    /\ signalLog = <<>>
    /\ decisionLog = <<>>
    /\ batch = [cmd |-> "none", seq |-> 0]
    /\ prevFetch = NoObservation
    /\ now = 0
IdleExec == env = [none |-> TRUE] /\ venue = [none |-> TRUE] /\ exec = [stage |-> "none"]
IdleLoop == watch = [pc |-> "none", started |-> 0]
IdleState == wstate = [stage |-> "none"]

(***************************************************************************)
(* SpecDecide: one run of the loop body of processSignalBundles            *)
(* (runGuards, then buildDecision) on inputs drawn from bounded sets       *)
(***************************************************************************)
PureSignals ==
    {[agentId |-> "a1", symbol |-> "BTC", side |-> "LONG", quantity |-> q,
      entryPrice |-> ep, entryOid |-> 1, currentPrice |-> cp,
      hasTs |-> t[1], ts |-> t[2]] :
        q \in {4, 5}, ep \in {-100, 0, 100}, cp \in {98, 100, 102},
        t \in {<<FALSE, 0>>, <<TRUE, 0>>, <<TRUE, 1000>>}}

GuardInstances ==
    {[name |-> "PriceGuard", param |-> 1], [name |-> "PriceGuard", param |-> 2],
     [name |-> "AgeGuard", param |-> 1],
     [name |-> "NotionalGuard", param |-> 400], [name |-> "NotionalGuard", param |-> 500]}

InitDecide ==
    /\ pin \in [signal : PureSignals,
                guards : SeqsUpTo(GuardInstances, MaxGuards),
                simulate : BOOLEAN,
                now : {2000, 2001}]
    /\ evaluation = NoEval
    /\ decision = NoDecision
    /\ IdleCli
    /\ IdleExec
    /\ IdleLoop
    /\ IdleState

\* processSignalBundles, first half of the loop body: runGuards(bundle.normalized, {now}, guardPipeline)
RunGuardsStep ==
    /\ evaluation.none
    /\ evaluation' = RunGuards(pin.signal, pin.now, pin.guards)
    /\ UNCHANGED <<pin, decision, cliVars, execVars, loopVars, stateVars>>

\* processSignalBundles, second half: buildDecision(bundle, evaluation, options.simulate ?? false)
BuildDecisionStep ==
    /\ ~evaluation.none
    /\ decision = NoDecision
    /\ decision' = BuildDecision(pin.signal, evaluation, pin.simulate, pin.now)
    /\ UNCHANGED <<pin, evaluation, cliVars, execVars, loopVars, stateVars>>

NextDecide == RunGuardsStep \/ BuildDecisionStep

SpecDecide == InitDecide /\ [][NextDecide]_vars

(***************************************************************************)
(* SpecCli: sequences of record / fetch / watch / replay / audit commands  *)
(* run with the same command-line options                                  *)
(***************************************************************************)
MaxCmds == 2        \* command invocations (or watch iterations) in one behaviour

PosA == [model_id |-> "a1", symbol |-> "BTC", entry_oid |-> 1, quantity |-> 1,
         entry_price |-> 100, current_price |-> 100]
PosAoff == [PosA EXCEPT !.current_price = 105]
PosE == [model_id |-> "a1", symbol |-> "ETH", entry_oid |-> 7, quantity |-> 1,
         entry_price |-> 100, current_price |-> 100]

\* payloads of the signal source / input file: the positions of the accounts, in order
Inputs == {<<>>, <<PosA>>, <<PosAoff, PosE>>, <<PosA, PosE>>}

\* guard options: --guards, --price-tolerance, --max-age, --max-notional
GuardOptions ==
    {[guards |-> <<"notional", "price", "age">>, priceTolerance |-> Value(1),
      maxAge |-> Value(1), maxNotional |-> Value(400)],
     [guards |-> <<>>, priceTolerance |-> Value(0), maxAge |-> Unset, maxNotional |-> Unset]}

\* entryOid per (agent, symbol) of the bundles of one fetch cycle, 0 when absent
Observed(bundles) ==
    [k \in Keys |->
        LET at == {i \in 1..Len(bundles) : KeyOf(bundles[i]) = k}
        IN  IF at = {} THEN 0
            ELSE bundles[CHOOSE i \in at : \A j \in at : i >= j].entryOid]

BatchOf(cmd, seq, dryRun, save, exitCode, bundles, processed, executed, observedBefore) ==
    [cmd |-> cmd, seq |-> seq, dryRun |-> dryRun, save |-> save, exitCode |-> exitCode,
     bundles |-> bundles,
     evaluations |-> processed.evaluations,
     decisions |-> executed.decisions,
     rawRecords |-> processed.rawRecords,
     execCalls |-> executed.calls,
     prevObserved |-> observedBefore,
     guardError |-> FALSE]

NothingProcessed == [evaluations |-> <<>>, decisions |-> <<>>, rawRecords |-> <<>>]
NothingExecuted == [decisions |-> <<>>, calls |-> <<>>]

\* a command that returned before processing any bundle
EarlyReturn(cmd, dryRun, save, exitCode) ==
    BatchOf(cmd, batch.seq + 1, dryRun, save, exitCode, <<>>, NothingProcessed,
            NothingExecuted, prevFetch)

InitCli ==
    /\ IdlePure
    /\ IdleExec
    /\ IdleLoop
    /\ IdleState
    /\ \E g \in GuardOptions, simulate \in BOOLEAN, execute \in BOOLEAN :
           opts = [simulate |-> simulate, execute |-> execute, guards |-> g.guards,
                   priceTolerance |-> g.priceTolerance, maxAge |-> g.maxAge,
                   maxNotional |-> g.maxNotional]
    /\ signalLog = <<>>
    /\ decisionLog = <<>>
    /\ batch = BatchOf("none", 0, FALSE, FALSE, 0, <<>>, NothingProcessed,
                       NothingExecuted, NoObservation)
    /\ prevFetch = NoObservation
    /\ now = 1

\* handleRecord / handleFetch from reading the payload to persistDecisions.
\* A throw of createGuardPipeline leaves the handler (guardError); handleWatch
\* catches it and goes on, elsewhere it ends main with exit code 1. `elapse` is
\* the time until the next command can start.
Intake(cmd, accounts, dryRun, ioFails, dt, elapse) ==
    /\ batch.seq < MaxCmds
    /\ LET pipeline == createGuardPipeline(opts)
           bundles == buildBundlesFromAccounts(accounts, now)
           processed == processSignalBundles(bundles, pipeline.guards, opts, now, dt)
           last == IF Len(bundles) = 0 THEN now ELSE now + (Len(bundles) - 1) * dt
       IN  IF ioFails
           THEN /\ batch' = EarlyReturn(cmd, dryRun, FALSE, 1)
                /\ now' = now + elapse
                /\ UNCHANGED <<signalLog, decisionLog, prevFetch>>
           ELSE IF Len(accounts) = 0
           THEN /\ batch' = EarlyReturn(cmd, dryRun, FALSE, 0)
                /\ now' = now + elapse
                /\ UNCHANGED <<signalLog, decisionLog, prevFetch>>
           ELSE IF pipeline.threw
           THEN /\ batch' = [EarlyReturn(cmd, dryRun, FALSE, IF cmd = "watch" THEN 0 ELSE 1)
                               EXCEPT !.guardError = TRUE]
                /\ now' = now + elapse
                /\ UNCHANGED <<signalLog, decisionLog, prevFetch>>
           ELSE \E outs \in OutcomesFor(processed.decisions, opts) :
                    LET executed == executeDecisions(processed.decisions, opts, outs)
                    IN  /\ signalLog' = IF dryRun THEN signalLog
                                        ELSE appendMany(signalLog, processed.rawRecords)
                        /\ decisionLog' = persistDecisions(decisionLog, executed.decisions, ~dryRun)
                        /\ batch' = BatchOf(cmd, batch.seq + 1, dryRun, FALSE, 0, bundles,
                                            processed, executed, prevFetch)
                        /\ prevFetch' = IF cmd = "record" THEN prevFetch ELSE Observed(bundles)
                        /\ now' = last + elapse
    /\ UNCHANGED <<opts, pureVars, execVars, loopVars, stateVars>>

\* ms between two bundles of one batch
Spacing(bundles) == IF Len(bundles) >= 2 THEN {0, 1} ELSE {0}

\* handleRecord
HandleRecord ==
    \E accounts \in Inputs, dryRun \in BOOLEAN, ioFails \in BOOLEAN :
        Intake("record", accounts, dryRun, ioFails, 0, 1)

\* handleFetch
HandleFetch ==
    \E accounts \in Inputs, dryRun \in BOOLEAN, ioFails \in BOOLEAN :
        Intake("fetch", accounts, dryRun, ioFails, 0, 1)

\* handleWatch, one iteration: handleFetch inside try/catch, then delay(interval)
HandleWatchIteration ==
    \E accounts \in Inputs, dryRun \in BOOLEAN, ioFails \in BOOLEAN :
        Intake("watch", accounts, dryRun, ioFails, 0, IntervalSeconds * 1000)

\* handleReplay
HandleReplay ==
    /\ batch.seq < MaxCmds
    /\ \E save \in BOOLEAN, dt \in Spacing(signalLog) :
        LET events == signalLog
            pipeline == createGuardPipeline(opts)
            bundles == [i \in 1..Len(events) |-> events[i].normalized]
            processed == processSignalBundles(bundles, pipeline.guards, opts, now, dt)
            last == IF Len(bundles) = 0 THEN now ELSE now + (Len(bundles) - 1) * dt
        IN  IF Len(events) = 0
            THEN /\ batch' = EarlyReturn("replay", FALSE, save, 0)
                 /\ now' = now + 1
                 /\ UNCHANGED decisionLog
            ELSE IF pipeline.threw
            THEN /\ batch' = [EarlyReturn("replay", FALSE, save, 1) EXCEPT !.guardError = TRUE]
                 /\ now' = now + 1
                 /\ UNCHANGED decisionLog
            ELSE \E outs \in OutcomesFor(processed.decisions, opts) :
                     LET executed == executeDecisions(processed.decisions, opts, outs)
                     IN  /\ decisionLog' = IF save
                                           THEN persistDecisions(decisionLog, executed.decisions, TRUE)
                                           ELSE decisionLog
                         /\ batch' = BatchOf("replay", batch.seq + 1, FALSE, save, 0, bundles,
                                             processed, executed, prevFetch)
                         /\ now' = last + 1
    /\ UNCHANGED <<signalLog, prevFetch, opts, pureVars, execVars, loopVars, stateVars>>

\* handleAudit: reads the decision log and prints
HandleAudit ==
    /\ batch.seq < MaxCmds
    /\ batch' = EarlyReturn("audit", FALSE, FALSE, 0)
    /\ now' = now + 1
    /\ UNCHANGED <<signalLog, decisionLog, prevFetch, opts, pureVars, execVars, loopVars, stateVars>>

NextCli == HandleRecord \/ HandleFetch \/ HandleWatchIteration \/ HandleReplay \/ HandleAudit

SpecCli == InitCli /\ [][NextCli]_vars

(***************************************************************************)
(* SpecReplay: replay commands run at different times over a signal log    *)
(* that an earlier record command wrote                                    *)
(***************************************************************************)
\* the logs as one or two runs of handleRecord on the same one-position payload
\* leave them (at times 1 and 2), and a new process started later
InitReplay ==
    /\ IdlePure
    /\ IdleExec
    /\ IdleLoop
    /\ IdleState
    /\ \E g \in GuardOptions, simulate \in BOOLEAN, execute \in BOOLEAN :
           opts = [simulate |-> simulate, execute |-> execute, guards |-> g.guards,
                   priceTolerance |-> g.priceTolerance, maxAge |-> g.maxAge,
                   maxNotional |-> g.maxNotional]
    /\ \E accounts \in {a \in Inputs : Len(a) = 1}, runs \in 1..2 :
           LET pipeline == createGuardPipeline(opts)
               first == processSignalBundles(buildBundlesFromAccounts(accounts, 1),
                                             pipeline.guards, opts, 1, 0)
               second == processSignalBundles(buildBundlesFromAccounts(accounts, 2),
                                              pipeline.guards, opts, 2, 0)
           IN  IF pipeline.threw
               THEN signalLog = <<>> /\ decisionLog = <<>>
               ELSE /\ signalLog = appendMany(appendMany(<<>>, first.rawRecords),
                                              IF runs = 2 THEN second.rawRecords ELSE <<>>)
                    /\ \E outs \in OutcomesFor(first.decisions, opts) :
                           decisionLog =
                               persistDecisions(
                                   persistDecisions(<<>>,
                                       executeDecisions(first.decisions, opts, outs).decisions,
                                       TRUE),
                                   executeDecisions(second.decisions, opts, outs).decisions,
                                   runs = 2)
    /\ batch = BatchOf("none", 0, FALSE, FALSE, 0, <<>>, NothingProcessed,
                       NothingExecuted, NoObservation)
    /\ prevFetch = NoObservation
    /\ now = 3

\* time passing between two commands: the next processSignalBundles reads a later
\* new Date()
TimePasses ==
    /\ batch.seq < MaxCmds
    /\ now < IntervalSeconds * 1000
    /\ now' = now + IntervalSeconds * 1000
    /\ UNCHANGED <<batch, signalLog, decisionLog, prevFetch, opts, pureVars, execVars,
                   loopVars, stateVars>>

NextReplay == HandleReplay \/ TimePasses

SpecReplay == InitReplay /\ [][NextReplay]_vars

(***************************************************************************)
(* SpecWatch: the loop of handleWatch. batch.seq counts the handleFetch    *)
(* calls that have settled, watch.started the iterations begun.            *)
(***************************************************************************)
InitWatch ==
    /\ IdlePure
    /\ IdleExec
    /\ \E g \in GuardOptions, simulate \in BOOLEAN, execute \in BOOLEAN :
           opts = [simulate |-> simulate, execute |-> execute, guards |-> g.guards,
                   priceTolerance |-> g.priceTolerance, maxAge |-> g.maxAge,
                   maxNotional |-> g.maxNotional]
    /\ signalLog = <<>>
    /\ decisionLog = <<>>
    /\ batch = BatchOf("none", 0, FALSE, FALSE, 0, <<>>, NothingProcessed,
                       NothingExecuted, NoObservation)
    /\ prevFetch = NoObservation
    /\ now = 1
    /\ watch = [pc |-> "top", started |-> 0]
    /\ IdleState

\* a loop that calls handleFetch without awaiting it
SettledNoAwait(started, settled) == TRUE

\* await handleFetch(...): the loop goes on when the call has returned or its
\* error has been caught
Settled(started, settled) == settled = started

\* top of while (true): iteration += 1 and handleFetch is called
StartIteration ==
    /\ watch.pc = "top"
    /\ watch.started < MaxCmds
    /\ watch' = [pc |-> "awaiting", started |-> watch.started + 1]
    /\ UNCHANGED <<cliVars, pureVars, execVars, stateVars>>

\* the handleFetch call in flight runs to its end (or to its caught throw)
FetchSettles ==
    /\ batch.seq < watch.started
    /\ HandleWatchIteration

\* await delay(intervalSeconds * 1000) begins
BeginSleep ==
    /\ watch.pc = "awaiting"
    /\ Settled(watch.started, batch.seq)
    /\ watch' = [watch EXCEPT !.pc = "sleeping"]
    /\ UNCHANGED <<cliVars, pureVars, execVars, stateVars>>

\* the timer of delay fires
EndSleep ==
    /\ watch.pc = "sleeping"
    /\ watch' = [watch EXCEPT !.pc = "top"]
    /\ UNCHANGED <<cliVars, pureVars, execVars, stateVars>>

NextWatch == StartIteration \/ FetchSettles \/ BeginSleep \/ EndSleep

\* the event loop runs a continuation that is ready and fires a timer that is due
SpecWatch == InitWatch /\ [][NextWatch]_vars /\ WF_vars(NextWatch)

(***************************************************************************)
(* SpecExec: calls of executor.execute against one venue account.  The     *)
(* process environment is fixed at Init; every call draws the decision,    *)
(* the balance and price of the snapshot and the venue's answers.          *)
(***************************************************************************)
MaxPos == 3         \* largest position or leg on the venue's books
MaxQty == 3         \* largest signal quantity
MaxAvail == 2       \* largest available balance

OkxInstruments ==
    {[ctVal |-> 1, lotSz |-> 1, minSz |-> 1], [ctVal |-> 1, lotSz |-> 2, minSz |-> 2],
     [ctVal |-> 2, lotSz |-> 1, minSz |-> 1], [ctVal |-> 1, lotSz |-> 1, minSz |-> 2]}

BinanceFilters ==
    {[minQty |-> 1, stepSize |-> 1], [minQty |-> 2, stepSize |-> 2],
     [minQty |-> 2, stepSize |-> 1], [minQty |-> 0, stepSize |-> 2]}

Environments ==
    {[exchange |-> "okx", posMode |-> m, forceReduceOnly |-> f, credentials |-> c] :
        m \in {"net", "long_short"}, f \in BOOLEAN, c \in BOOLEAN}
    \cup {[exchange |-> "binance", posMode |-> "net", forceReduceOnly |-> f, credentials |-> c] :
        f \in BOOLEAN, c \in BOOLEAN}
    \cup {[exchange |-> "simulator", posMode |-> "net", forceReduceOnly |-> FALSE,
           credentials |-> FALSE]}

\* the lot of the venue's books: positions are whole lots
LotOf(e, meta) == IF e.exchange = "okx" THEN meta.lotSz ELSE meta.stepSize

Venues(e) ==
    LET metas == IF e.exchange = "okx" THEN OkxInstruments ELSE BinanceFilters
        sizes(meta) == {n \in 0..MaxPos : n % LotOf(e, meta) = 0}
    IN  IF e.posMode = "long_short"
        THEN {[meta |-> meta, net |-> 0, long |-> l, short |-> s] :
                 meta \in metas, l \in 0..MaxPos, s \in 0..MaxPos}
        ELSE {[meta |-> meta, net |-> n, long |-> 0, short |-> 0] :
                 meta \in metas, n \in -MaxPos..MaxPos}

WholeLots(e, v) ==
    LET lot == LotOf(e, v.meta)
    IN  Abs(v.net) % lot = 0 /\ v.long % lot = 0 /\ v.short % lot = 0

NoExitPlan == [profit_target |-> 0, stop_loss |-> 0]

\* the EXECUTE decisions handed to the executor: buildSignal gives quantity 0
\* the side LONG; prices of the exit plan are 0 when absent
ExecDecisions ==
    {[side |-> s, quantity |-> q, leverage |-> l, exitPlan |-> x,
      reasonCode |-> "GUARDS_PASS"] :
        s \in {"LONG", "SHORT"}, q \in 0..MaxQty, l \in {1, 2},
        x \in {NoExitPlan, [profit_target |-> 120, stop_loss |-> 90]}}
    \ {d \in [side : {"SHORT"}, quantity : {0}, leverage : {1, 2},
              exitPlan : {NoExitPlan, [profit_target |-> 120, stop_loss |-> 90]},
              reasonCode : {"GUARDS_PASS"}] : TRUE}

\* the venue's answers during one call: whether the instrument / snapshot
\* requests succeed, which order submission fails (0: none) and how ("before":
\* a request preceding the submission throws, "rejected": the venue answers
\* the order with an error), and whether the protective orders are accepted
Responses ==
    {[snapshot |-> TRUE, failAt |-> 0, failKind |-> "rejected", tpOk |-> TRUE, slOk |-> TRUE],
     [snapshot |-> TRUE, failAt |-> 0, failKind |-> "rejected", tpOk |-> FALSE, slOk |-> TRUE],
     [snapshot |-> TRUE, failAt |-> 1, failKind |-> "rejected", tpOk |-> TRUE, slOk |-> TRUE],
     [snapshot |-> TRUE, failAt |-> 1, failKind |-> "before", tpOk |-> TRUE, slOk |-> TRUE],
     [snapshot |-> TRUE, failAt |-> 2, failKind |-> "rejected", tpOk |-> TRUE, slOk |-> TRUE],
     [snapshot |-> FALSE, failAt |-> 0, failKind |-> "rejected", tpOk |-> TRUE, slOk |-> TRUE]}

Prices == {1, 2}

NoSnapshot == [read |-> FALSE, net |-> 0, long |-> 0, short |-> 0, available |-> 0,
               marketPrice |-> 0]

InitExec ==
    /\ IdlePure
    /\ IdleCli
    /\ IdleLoop
    /\ IdleState
    /\ env \in Environments
    /\ venue \in {v \in Venues(env) : WholeLots(env, v)}
    /\ exec = [stage |-> "none"]

\* createExchangeExecutor(options.exchange).execute(decision)
Dispatch(dec, e, v, available, marketPrice, resp) ==
    IF e.exchange = "okx" THEN OkxExecute(dec, e, v, available, marketPrice, resp)
    ELSE IF e.exchange = "binance"
    THEN BinanceExecute(dec, e, v, available, marketPrice, resp)
    ELSE SimulatorExecute(dec)

Execute ==
    \E d \in ExecDecisions, available \in 0..MaxAvail, marketPrice \in Prices,
       resp \in Responses :
        LET out == Dispatch(d, env, venue, available, marketPrice, resp)
            read == env.exchange # "simulator" /\ env.credentials /\ resp.snapshot
            filled == Fill(venue, out.orders, 1)
        IN  /\ exec.stage = "none"
            /\ Abs(filled.net) <= MaxPos /\ filled.long <= MaxPos /\ filled.short <= MaxPos
            /\ exec' = [stage |-> "done", decision |-> d,
                        snapshot |-> IF read
                                     THEN [read |-> TRUE, net |-> venue.net,
                                           long |-> venue.long, short |-> venue.short,
                                           available |-> available,
                                           marketPrice |-> marketPrice]
                                     ELSE NoSnapshot,
                        planned |-> out.planned, orders |-> out.orders,
                        report |-> out.report]
            /\ venue' = filled
            /\ UNCHANGED <<env, pureVars, cliVars, loopVars, stateVars>>

\* the loop of executeDecisions moves on to the next EXECUTE decision
NextDecision ==
    /\ exec.stage = "done"
    /\ exec' = [stage |-> "none"]
    /\ UNCHANGED <<env, venue, pureVars, cliVars, loopVars, stateVars>>

NextExec == Execute \/ NextDecision

SpecExec == InitExec /\ [][NextExec]_vars

(***************************************************************************)
(* SpecBatch: the loop of executeDecisions over the EXECUTE decisions of   *)
(* one batch, each executor call split into its start (the account         *)
(* snapshot is read) and its end (orders sent, report attached)            *)
(***************************************************************************)
MaxBatch == 2      \* EXECUTE decisions of one batch

BatchDecisions == {d \in ExecDecisions : d.leverage = 1 /\ d.exitPlan = NoExitPlan}

BatchResponses ==
    {r \in Responses : r.snapshot /\ r.tpOk /\ r.failAt <= 1 /\ r.failKind = "rejected"}

PositionsOf(v) == [net |-> v.net, long |-> v.long, short |-> v.short]

InitBatch ==
    /\ IdlePure
    /\ IdleCli
    /\ IdleLoop
    /\ IdleState
    /\ env \in {e \in Environments : e.credentials}
    /\ venue \in {v \in Venues(env) : WholeLots(env, v)}
    /\ exec = [stage |-> "batch", started |-> 0, attached |-> 0, inflight |-> {},
               lastSent |-> 0]

\* a loop that starts every executor call without awaiting the one before
ReportNotAwaited(started, attached) == TRUE

\* const report = await executor.execute(decision): the loop body goes on, and
\* the next pass begins, when the call has returned or thrown
ReportAwaited(started, attached) == attached = started

\* executor.execute(decision) is called and reads its account snapshot
BeginCall ==
    \E d \in BatchDecisions :
        /\ exec.stage = "batch"
        /\ exec.started < MaxBatch
        /\ ReportAwaited(exec.started, exec.attached)
        /\ exec' = [exec EXCEPT !.started = @ + 1,
                                !.inflight = @ \cup {[k |-> exec.started + 1, decision |-> d,
                                                      positions |-> PositionsOf(venue)]}]
        /\ UNCHANGED <<env, venue, pureVars, cliVars, loopVars, stateVars>>

\* a call in flight sizes its orders on the snapshot it read, sends them, and its
\* report is attached to the decision
EndCall ==
    \E c \in exec.inflight, available \in 0..MaxAvail, marketPrice \in Prices,
       resp \in BatchResponses :
        LET seen == [venue EXCEPT !.net = c.positions.net, !.long = c.positions.long,
                                  !.short = c.positions.short]
            out == Dispatch(c.decision, env, seen, available, marketPrice, resp)
            filled == Fill(venue, out.orders, 1)
        IN  /\ exec.stage = "batch"
            /\ Abs(filled.net) <= MaxPos /\ Abs(filled.long) <= MaxPos
            /\ Abs(filled.short) <= MaxPos
            /\ venue' = filled
            /\ exec' = [exec EXCEPT !.attached = @ + 1, !.inflight = @ \ {c},
                                    !.lastSent = Len(out.orders)]
            /\ UNCHANGED <<env, pureVars, cliVars, loopVars, stateVars>>

NextBatch == BeginCall \/ EndCall

SpecBatch == InitBatch /\ [][NextBatch]_vars

(***************************************************************************)
(* services/watch-state.ts.  A WatchState is { agents: { id: { positions:  *)
(* { symbol: entry } } } }: the agents map refers to one object per agent, *)
(* and two WatchStates may refer to the same object.  The model keeps the  *)
(* objects apart from the maps that refer to them: an agents map takes an  *)
(* agent to a reference (NoRef when the key is absent), and objects takes  *)
(* a reference to the positions of that object, symbol -> entryOid with 0  *)
(* for a symbol without entry.                                             *)
(***************************************************************************)
WatchAgents == {"a1", "a2"}
WatchSymbols == {"BTC", "ETH"}
EntryOids == {1, 2}

NoRef == [origin |-> "none", agent |-> "none"]
Ref(origin, agent) == [origin |-> origin, agent |-> agent]
Refs == {Ref(o, a) : o \in {"state", "call"}, a \in WatchAgents}
NoPositions == [s \in WatchSymbols |-> 0]

WatchBundles == [agentId : WatchAgents, symbol : WatchSymbols, entryOid : EntryOids]
WatchBatches ==
    {<<>>} \cup {<<b>> : b \in WatchBundles} \cup {<<b, c>> : b, c \in WatchBundles}

\* the entry a WatchState holds for (agent, symbol), 0 when it holds none
Stored(agents, objects, agent, symbol) ==
    IF agents[agent] = NoRef THEN 0 ELSE objects[agents[agent]][symbol]

\* the for loop of filterBundlesWithState over the bundles still to visit
RECURSIVE FilterLoop(_, _, _, _, _)
FilterLoop(bundles, agents, objects, fresh, skipped) ==
    IF bundles = <<>>
    THEN [bundles |-> fresh, nextState |-> [agents |-> agents], skipped |-> skipped,
          objects |-> objects]
    ELSE LET agentId == Head(bundles).agentId
             symbol == Head(bundles).symbol
             entryOid == Head(bundles).entryOid
             \* if (!nextState.agents[agentId]) nextState.agents[agentId] = { positions: {} }
             isNew == agents[agentId] = NoRef
             agents1 == IF isNew THEN [agents EXCEPT ![agentId] = Ref("call", agentId)]
                        ELSE agents
             objects1 == IF isNew THEN [objects EXCEPT ![Ref("call", agentId)] = NoPositions]
                         ELSE objects
             agentState == agents1[agentId]
             positionState == objects1[agentState][symbol]
         IN  IF positionState # 0 /\ positionState = entryOid
             THEN FilterLoop(Tail(bundles), agents1, objects1, fresh, skipped + 1)
             ELSE FilterLoop(Tail(bundles), agents1,
                             [objects1 EXCEPT ![agentState][symbol] = entryOid],
                             Append(fresh, Head(bundles)), skipped)

\* filterBundlesWithState: nextState.agents is { ...state.agents }, a new map
\* whose values are the references of state.agents
filterBundlesWithState(bundles, state, objects) ==
    FilterLoop(bundles, state.agents, objects, <<>>, 0)

\* loadWatchState: the parsed file, every agent in an object of its own
LoadedStates ==
    {l \in [WatchAgents -> [present : BOOLEAN, positions : [WatchSymbols -> {0} \cup EntryOids]]] :
        \A a \in WatchAgents : ~l[a].present => l[a].positions = NoPositions}

Loaded(l) ==
    [stage |-> "loaded",
     state |-> [agents |-> [a \in WatchAgents |->
                               IF l[a].present THEN Ref("state", a) ELSE NoRef]],
     objects |-> [r \in Refs |-> IF r.origin = "state" THEN l[r.agent].positions
                                 ELSE NoPositions]]

InitState ==
    /\ IdlePure /\ IdleCli /\ IdleExec /\ IdleLoop
    /\ \E l \in LoadedStates : wstate = Loaded(l)

\* one call filterBundlesWithState(bundles, state) on the loaded state
FilterBundles ==
    /\ wstate.stage = "loaded"
    /\ \E bundles \in WatchBatches :
           LET result == filterBundlesWithState(bundles, wstate.state, wstate.objects)
           IN  wstate' = [stage |-> "filtered",
                          state |-> wstate.state,
                          objects |-> result.objects,
                          given |-> bundles,
                          result |-> [bundles |-> result.bundles,
                                      nextState |-> result.nextState,
                                      skipped |-> result.skipped]]
    /\ UNCHANGED <<pureVars, cliVars, execVars, loopVars>>

\* saveWatchState(nextState) and the loadWatchState of the next cycle: the file
\* holds the entries reachable from nextState, parsed into objects of their own
SaveAndLoad ==
    /\ wstate.stage = "filtered"
    /\ wstate' = Loaded([a \in WatchAgents |->
                    [present |-> wstate.result.nextState.agents[a] # NoRef,
                     positions |-> IF wstate.result.nextState.agents[a] = NoRef
                                   THEN NoPositions
                                   ELSE wstate.objects[wstate.result.nextState.agents[a]]]])
    /\ UNCHANGED <<pureVars, cliVars, execVars, loopVars>>

NextState == FilterBundles \/ SaveAndLoad

SpecState == InitState /\ [][NextState]_vars

(***************************************************************************)
(* Claims                                                                  *)
(***************************************************************************)
Built == decision # NoDecision

AllPassed(results) == \A i \in 1..Len(results) : results[i].passed

\* C1: buildDecision yields SIMULATE whenever the simulate flag is set, whatever
\* the guard outcomes; with the flag unset it yields EXECUTE if and only if
\* every guard result passed, and SKIP otherwise.
C1_ActionFromSimulateAndGuards ==
    Built =>
        /\ pin.simulate => decision.action = "SIMULATE"
        /\ ~pin.simulate =>
              /\ decision.action \in {"EXECUTE", "SKIP"}
              /\ decision.action = "EXECUTE" <=> AllPassed(decision.guards)

\* C1 witness: a SIMULATE decision was built although a guard failed
C1_Witness ==
    /\ Built
    /\ pin.simulate
    /\ decision.action = "SIMULATE"
    /\ \E i \in 1..Len(decision.guards) : ~decision.guards[i].passed

\* C3: reasonCode is "<name>_FAIL" for the first guard, in configuration order,
\* whose result did not pass; with no failing guard it is "SIMULATED" when the
\* simulate flag is set and "GUARDS_PASS" otherwise.
C3_ReasonCodeFirstFailing ==
    Built =>
        LET checks == [i \in 1..Len(pin.guards) |-> GuardCheck(pin.guards[i], pin.signal, pin.now)]
        IN  /\ (\A i \in 1..Len(checks) : checks[i].passed) =>
                   decision.reasonCode = IF pin.simulate THEN "SIMULATED" ELSE "GUARDS_PASS"
            /\ \A i \in 1..Len(checks) :
                   (~checks[i].passed /\ \A j \in 1..(i - 1) : checks[j].passed) =>
                       decision.reasonCode = pin.guards[i].name \o "_FAIL"

\* C3 witness: two guards failed and the reason code names the first one
C3_Witness ==
    /\ Built
    /\ Len(decision.guards) >= 2
    /\ ~decision.guards[1].passed
    /\ ~decision.guards[2].passed
    /\ decision.guards[1].guard # decision.guards[2].guard
    /\ decision.reasonCode = decision.guards[1].guard \o "_FAIL"

\* C4: runGuards invokes every configured guard exactly once, also after a
\* failure, returns results[i] = the result of guards[i], and passed is the
\* conjunction of all results; with no guard it returns passed and no result.
C4_RunGuardsNoShortCircuit ==
    ~evaluation.none =>
        /\ Len(evaluation.results) = Len(pin.guards)
        /\ evaluation.calls = [i \in 1..Len(pin.guards) |-> i]
        /\ \A i \in 1..Len(pin.guards) :
               evaluation.results[i] = GuardCheck(pin.guards[i], pin.signal, pin.now)
        /\ evaluation.passed <=> AllPassed(evaluation.results)
        /\ Len(pin.guards) = 0 => evaluation.passed /\ evaluation.results = <<>>

\* C4 witness: the first guard failed and the second guard was still run, and passed
C4_Witness ==
    /\ ~evaluation.none
    /\ Len(pin.guards) = 2
    /\ ~evaluation.results[1].passed
    /\ evaluation.results[2].passed
    /\ ~evaluation.passed

\* C2: executor.execute is called only for decisions whose action is EXECUTE,
\* and only with --execute set and --simulate unset; a SKIP or SIMULATE decision
\* never carries an execution, in the batch of any command and in the decision log.
C2_ExecutorOnlyForExecute ==
    /\ \A k \in 1..Len(batch.execCalls) :
           /\ batch.execCalls[k].action = "EXECUTE"
           /\ opts.execute
           /\ ~opts.simulate
    /\ \A i \in 1..Len(batch.decisions) :
           batch.decisions[i].execution.attached =>
               /\ batch.decisions[i].action = "EXECUTE"
               /\ \E k \in 1..Len(batch.execCalls) : batch.execCalls[k].at = i
    /\ \A i \in 1..Len(decisionLog) :
           decisionLog[i].execution.attached => decisionLog[i].action = "EXECUTE"

\* C2 witness: a replay called the executor for an EXECUTE decision and left the
\* SKIP decision of the same batch without execution
C2_Witness ==
    /\ batch.cmd = "replay"
    /\ Len(batch.execCalls) = 1
    /\ \E i \in 1..Len(batch.decisions) :
           batch.decisions[i].action = "SKIP" /\ ~batch.decisions[i].execution.attached
    /\ \E i \in 1..Len(batch.decisions) :
           batch.decisions[i].action = "EXECUTE" /\ batch.decisions[i].execution.attached

\* C5: in a fetch / watch cycle no bundle reaches the guard pipeline (and so no
\* decision, no signal-log record and no executor call is made for it) when the
\* previous cycle observed the same entry-order identifier for its (agent, symbol).
C5_DedupAcrossFetchCycles ==
    batch.cmd \in {"fetch", "watch"} =>
        \A i \in 1..Len(batch.evaluations) :
            batch.prevObserved[KeyOf(batch.bundles[i])] # batch.bundles[i].entryOid

(***************************************************************************)
(* The last executor call, as the executor claims speak of it              *)
(***************************************************************************)
Called == exec.stage = "done"
Reconciled == Called /\ exec.snapshot.read      \* the call read the venue's positions
NetMode == env.exchange \in {"okx", "binance"} /\ env.posMode = "net"
DualMode == env.exchange = "okx" /\ env.posMode = "long_short"
\* asset units per unit of order size: OKX sizes are contracts
Unit == IF env.exchange = "okx" THEN venue.meta.ctVal ELSE 1
TargetSigned == (IF exec.decision.side = "LONG" THEN 1 ELSE -1) * exec.decision.quantity
CurrentSigned == exec.snapshot.net * Unit
Primary == SelectSeq(exec.orders, LAMBDA o : o.kind = "order")
CrossingZero ==
    CurrentSigned # 0 /\ TargetSigned # 0 /\ Sign(CurrentSigned) # Sign(TargetSigned)
SameLeg == IF exec.decision.side = "LONG" THEN exec.snapshot.long ELSE exec.snapshot.short
OppositeLeg == IF exec.decision.side = "LONG" THEN exec.snapshot.short ELSE exec.snapshot.long
SamePos == IF exec.decision.side = "LONG" THEN "long" ELSE "short"
OppositePos == IF exec.decision.side = "LONG" THEN "short" ELSE "long"
OpeningSide == IF exec.decision.side = "LONG" THEN "buy" ELSE "sell"
ClosingSide == IF exec.decision.side = "LONG" THEN "sell" ELSE "buy"

\* C6: in net mode, a call that finds the signed target equal to the signed
\* position it read submits no order, primary or protective, and reports success.
C6_AlignedNetNoOrder ==
    (Reconciled /\ NetMode /\ TargetSigned = CurrentSigned) =>
        exec.orders = <<>> /\ exec.report.success

\* C6 witness: a non-zero position already at the target of a signal that
\* carries an exit plan; nothing was sent and the report is a success
C6_Witness ==
    /\ Reconciled /\ NetMode
    /\ exec.snapshot.net # 0
    /\ TargetSigned = CurrentSigned
    /\ exec.decision.exitPlan.profit_target > 0
    /\ exec.orders = <<>>
    /\ exec.report.success

\* the lot and the minimum order size of the instrument, in asset units
LotUnits ==
    IF env.exchange = "okx" THEN venue.meta.lotSz * venue.meta.ctVal ELSE venue.meta.stepSize
MinUnits ==
    IF env.exchange = "okx" THEN venue.meta.minSz * venue.meta.ctVal ELSE venue.meta.minQty
OnLotGrid(want) == want % LotUnits = 0 /\ want >= MinUnits

\* C7 as stated, for the calls that submit an order: net mode, force-reduce
\* unset, position and target non-zero with opposite signs: exactly one primary
\* order, side sign(target - current), size exactly |target - current|, not
\* reduce-only.
C7_CrossingZeroExactSize ==
    (Reconciled /\ NetMode /\ ~env.forceReduceOnly /\ CrossingZero /\ Primary # <<>>) =>
        /\ Len(Primary) = 1
        /\ IsBuy(Primary[1].side) <=> (TargetSigned > CurrentSigned)
        /\ Primary[1].sz * Unit = Abs(TargetSigned - CurrentSigned)
        /\ ~Primary[1].reduceOnly

\* C7 amended: in that case at most one primary order is submitted, and none
\* only when the call reports that a venue request or the size adjustment
\* failed; the order has side sign(target - current), is not reduce-only, and
\* its size is |target - current| adjusted to the instrument's lot and minimum
\* order size: exactly |target - current| whenever that is a whole number of
\* lots not below the minimum, otherwise the minimum or within one lot of it.
C7_CrossingZeroLotAdjustedSize ==
    (Reconciled /\ NetMode /\ ~env.forceReduceOnly /\ CrossingZero) =>
        LET want == Abs(TargetSigned - CurrentSigned)
        IN  \/ /\ exec.orders = <<>>
               /\ exec.report = Report(FALSE, "execution_failed")
            \/ /\ Len(Primary) = 1
               /\ IsBuy(Primary[1].side) <=> (TargetSigned > CurrentSigned)
               /\ ~Primary[1].reduceOnly
               /\ Primary[1].sz > 0
               /\ IF OnLotGrid(want)
                  THEN Primary[1].sz * Unit = want
                  ELSE \/ Primary[1].sz * Unit = MinUnits
                       \/ Abs(Primary[1].sz * Unit - want) < LotUnits

\* C7 witness: OKX position +2, target SHORT 1 on a one-unit lot: a single SELL
\* of 3, not reduce-only, was accepted
C7_Witness ==
    /\ Reconciled /\ NetMode /\ ~env.forceReduceOnly
    /\ env.exchange = "okx" /\ venue.meta = [ctVal |-> 1, lotSz |-> 1, minSz |-> 1]
    /\ exec.snapshot.net = 2
    /\ exec.decision.side = "SHORT" /\ exec.decision.quantity = 1
    /\ Len(Primary) = 1
    /\ Primary[1] = Submitted("order", "sell", 3, FALSE, "net", TRUE)
    /\ exec.report.success

IncreasesExposure ==
    IF DualMode THEN exec.decision.quantity > SameLeg * Unit
    ELSE /\ TargetSigned # CurrentSigned
         /\ ~(TargetSigned = 0 /\ CurrentSigned # 0)
         /\ ~(/\ Sign(TargetSigned) = Sign(CurrentSigned)
              /\ Abs(TargetSigned) < Abs(CurrentSigned))

\* C9: with force-reduce set, a call whose reconciliation would increase
\* exposure reports the force-reduce rejection and submits no order at all, in
\* net mode and in dual mode, also when a closing order for the opposite leg had
\* already been planned.
C9_ForceReduceRejectsIncrease ==
    (Reconciled /\ (NetMode \/ DualMode) /\ env.forceReduceOnly /\ IncreasesExposure) =>
        /\ exec.orders = <<>>
        /\ exec.report = Report(FALSE, "force_reduce_only")

\* C9 witness: dual mode, force-reduce set, a short leg whose closing order was
\* planned and a LONG target above the long leg: rejected, nothing sent
C9_Witness ==
    /\ Reconciled /\ DualMode /\ env.forceReduceOnly
    /\ exec.decision.side = "LONG"
    /\ exec.snapshot.short > 0
    /\ exec.decision.quantity > exec.snapshot.long * Unit
    /\ Len(exec.planned) = 1 /\ exec.planned[1].posSide = "short"
    /\ exec.orders = <<>>
    /\ ~exec.report.success

\* what the position or leg named by a primary order held when the call read it
Held(o) ==
    IF o.posSide = "long" THEN exec.snapshot.long
    ELSE IF o.posSide = "short" THEN exec.snapshot.short
    ELSE Abs(exec.snapshot.net)

\* the quantity (asset units) the executor wanted for a primary order before
\* the lot adjustment
Wanted(o) ==
    LET k == CHOOSE k \in 1..Len(exec.planned) : exec.planned[k].posSide = o.posSide
    IN  exec.planned[k].quantity

\* C10: every reduce-only primary order submitted has, after lot and minimum
\* adjustment, a size at most the size held in the position or leg it reduces
\* and at most the quantity wanted for it: it is rounded down, never up.
C10_ReduceOnlyRoundedDown ==
    Called =>
        \A k \in 1..Len(Primary) :
            Primary[k].reduceOnly =>
                /\ Primary[k].sz <= Held(Primary[k])
                /\ Primary[k].sz * Unit <= Wanted(Primary[k])

\* C11: when execution is enabled, every EXECUTE decision of a batch ends with
\* exactly one executor call and one execution attached, carrying the decision's
\* own id; a failed report or a thrown error gives success = FALSE and does not
\* keep the later EXECUTE decisions of the batch from being attempted.
C11_FailuresBecomeFailedReports ==
    (batch.cmd \in {"record", "fetch", "watch", "replay"} /\ opts.execute /\ ~opts.simulate) =>
        \A i \in 1..Len(batch.decisions) :
            batch.decisions[i].action = "EXECUTE" =>
                /\ batch.decisions[i].execution.attached
                /\ batch.decisions[i].execution.decisionId = batch.decisions[i].id
                /\ batch.decisions[i].execution.threw => ~batch.decisions[i].execution.success
                /\ Cardinality({k \in 1..Len(batch.execCalls) : batch.execCalls[k].at = i}) = 1

\* C11 witness: the executor threw for the first EXECUTE decision of a batch and
\* the second one was still executed, with success
C11_Witness ==
    /\ Len(batch.decisions) = 2
    /\ batch.decisions[1].action = "EXECUTE" /\ batch.decisions[2].action = "EXECUTE"
    /\ batch.decisions[1].execution.attached
    /\ batch.decisions[1].execution.threw /\ ~batch.decisions[1].execution.success
    /\ batch.decisions[2].execution.attached /\ batch.decisions[2].execution.success
    /\ Len(batch.execCalls) = 2

IsPrefix(s, t) == Len(s) <= Len(t) /\ SubSeq(t, 1, Len(s)) = s

\* C12: across every command (record, fetch, watch, replay, audit) the signal log
\* and the decision log before the command are prefixes of the logs after it:
\* records are only appended, never rewritten, reordered or deleted.
C12_LogsAppendOnly ==
    [][IsPrefix(signalLog, signalLog') /\ IsPrefix(decisionLog, decisionLog')]_vars

\* both logs held records before the last command and both grew in it
C12_Witness ==
    /\ batch.seq = 2
    /\ batch.cmd \in {"record", "fetch", "watch"}
    /\ Len(batch.rawRecords) > 0
    /\ Len(signalLog) > Len(batch.rawRecords)
    /\ Len(decisionLog) > Len(batch.decisions)

\* C13: a replay leaves the signal log and the record of what was last observed at
\* the signal source unchanged, takes its bundles from the signal log alone, builds
\* one Decision per signal-log record in log order (also for records whose position
\* the last fetch cycle already observed), and leaves the decision log unchanged
\* without --save-decisions and extended by exactly these Decisions with it.
C13_ReplayFrame ==
    [][(batch'.cmd = "replay" /\ batch'.seq = batch.seq + 1) =>
          /\ signalLog' = signalLog
          /\ prevFetch' = prevFetch
          /\ batch'.bundles = [i \in 1..Len(signalLog) |-> signalLog[i].normalized]
          /\ batch'.exitCode = 0 =>
                 /\ Len(batch'.decisions) = Len(signalLog)
                 /\ \A i \in 1..Len(signalLog) :
                        batch'.decisions[i].signal = signalLog[i].normalized
          /\ decisionLog' = IF batch'.save THEN decisionLog \o batch'.decisions
                            ELSE decisionLog]_vars

\* a saving replay of a two-record log written by a fetch cycle, one record rejected
C13_Witness ==
    /\ batch.cmd = "replay"
    /\ batch.save
    /\ Len(signalLog) = 2
    /\ Len(batch.decisions) = 2
    /\ \E i \in 1..2 : batch.decisions[i].action = "SKIP"
    /\ \E i \in 1..2 : batch.decisions[i].action = "EXECUTE"
    /\ \A i \in 1..2 :
           prevFetch[KeyOf(batch.decisions[i].signal)] = batch.decisions[i].signal.entryOid
    /\ Len(decisionLog) = 4

\* what C14 compares of a Decision: action, reasonCode and each guard's verdict
Outline(decisions) ==
    [i \in 1..Len(decisions) |->
        [action |-> decisions[i].action,
         reasonCode |-> decisions[i].reasonCode,
         guards |-> [k \in 1..Len(decisions[i].guards) |->
                        [guard |-> decisions[i].guards[k].guard,
                         passed |-> decisions[i].guards[k].passed]]]]

\* C14: a replay without --save-decisions that follows another such replay of the
\* same signal log under the same guard configuration produces Decisions with the
\* same action, reasonCode and guard verdicts, whenever the two replays run.
C14_ReplayIndependentOfTime ==
    [][(/\ batch.cmd = "replay" /\ ~batch.save /\ batch.exitCode = 0
        /\ batch'.cmd = "replay" /\ ~batch'.save /\ batch'.exitCode = 0
        /\ batch'.seq = batch.seq + 1
        /\ signalLog' = signalLog /\ opts' = opts)
           => Outline(batch'.decisions) = Outline(batch.decisions)]_vars

SameSignal(a, b) ==
    a.agentId = b.agentId /\ a.symbol = b.symbol /\ a.entryOid = b.entryOid

\* C15: two Decisions built for the same signal (same agentId, symbol, entryOid)
\* never carry the same id, in one batch or across batches, so the records of
\* the decision log have pairwise distinct ids.
C15_DecisionIdsDistinct ==
    /\ \A i, j \in 1..Len(batch.decisions) :
           (i # j /\ SameSignal(batch.decisions[i].signal, batch.decisions[j].signal))
               => batch.decisions[i].id # batch.decisions[j].id
    /\ \A i, j \in 1..Len(decisionLog) :
           i # j => decisionLog[i].id # decisionLog[j].id

\* a threshold given on the command line that no guard constructor accepts
InvalidThreshold(o) ==
    \/ o.priceTolerance.set /\ o.priceTolerance.v <= 0
    \/ o.maxAge.set /\ o.maxAge.v <= 0
    \/ o.maxNotional.set /\ o.maxNotional.v <= 0

\* C16: with a guard threshold <= 0 every record, fetch, watch and replay command
\* in which guard construction throws ends with a non-zero exit code, having
\* evaluated, logged and executed nothing.
C16_InvalidThresholdFatal ==
    (/\ InvalidThreshold(opts)
     /\ batch.cmd \in {"record", "fetch", "watch", "replay"}
     /\ batch.guardError) =>
        /\ batch.exitCode # 0
        /\ batch.evaluations = <<>>
        /\ batch.execCalls = <<>>
        /\ signalLog = <<>>
        /\ decisionLog = <<>>

Evaluated == ~evaluation.none

\* C17: the result of a PriceGuard fails with the invalid-entry-price reason when
\* entryPrice <= 0; otherwise it passes exactly when |current - entry| / entry * 100
\* is at most the tolerance, the bound included (entry 100, current 102: fails
\* with tolerance 1, passes with tolerance 2).
C17_PriceGuardInclusiveTolerance ==
    Evaluated =>
        \A i \in 1..Len(pin.guards) :
            pin.guards[i].name = "PriceGuard" =>
                LET r == evaluation.results[i]
                    s == pin.signal
                    tolerance == pin.guards[i].param
                IN  /\ r.guard = "PriceGuard"
                    /\ s.entryPrice <= 0 =>
                           ~r.passed /\ r.reason = "Invalid entry price detected"
                    /\ s.entryPrice > 0 =>
                           (r.passed <=>
                               Abs(s.currentPrice - s.entryPrice) * 100 <= tolerance * s.entryPrice)
                    /\ (s.entryPrice = 100 /\ s.currentPrice = 102 /\ tolerance = 1) => ~r.passed
                    /\ (s.entryPrice = 100 /\ s.currentPrice = 102 /\ tolerance = 2) => r.passed

\* C17 witness: a price difference of exactly the tolerance passed
C17_Witness ==
    /\ Evaluated
    /\ Len(pin.guards) >= 1
    /\ pin.guards[1] = [name |-> "PriceGuard", param |-> 2]
    /\ pin.signal.entryPrice = 100
    /\ pin.signal.currentPrice = 98
    /\ evaluation.results[1].passed

\* C18: the result of a NotionalGuard passes exactly when quantity * entryPrice
\* is at most maxNotional, the limit included (5 at 100: fails with 400, passes
\* with 500).
C18_NotionalGuardInclusiveLimit ==
    Evaluated =>
        \A i \in 1..Len(pin.guards) :
            pin.guards[i].name = "NotionalGuard" =>
                LET r == evaluation.results[i]
                    s == pin.signal
                    maxNotional == pin.guards[i].param
                IN  /\ r.guard = "NotionalGuard"
                    /\ r.passed <=> s.quantity * s.entryPrice <= maxNotional
                    /\ (s.quantity = 5 /\ s.entryPrice = 100 /\ maxNotional = 400) => ~r.passed
                    /\ (s.quantity = 5 /\ s.entryPrice = 100 /\ maxNotional = 500) => r.passed

\* C18 witness: a notional of exactly the limit passed
C18_Witness ==
    /\ Evaluated
    /\ Len(pin.guards) >= 1
    /\ pin.guards[1] = [name |-> "NotionalGuard", param |-> 500]
    /\ pin.signal.quantity = 5
    /\ pin.signal.entryPrice = 100
    /\ evaluation.results[1].passed

\* C19: the result of an AgeGuard passes when the signal has no parseable
\* timestamp, and with a timestamp it passes exactly when now - timestamp is at
\* most maxAgeSeconds * 1000.
C19_AgeGuardFailOpenElseWithinLimit ==
    Evaluated =>
        \A i \in 1..Len(pin.guards) :
            pin.guards[i].name = "AgeGuard" =>
                LET r == evaluation.results[i]
                    s == pin.signal
                IN  /\ ~s.hasTs => r.passed
                    /\ s.hasTs => (r.passed <=> pin.now - s.ts <= pin.guards[i].param * 1000)

\* positions in exec.orders of the protective (take-profit / stop-loss) orders
Protective == {k \in 1..Len(exec.orders) : exec.orders[k].kind # "order"}

\* C20: in net and in dual mode a protective order is submitted only when the
\* signal's exit plan carries a profit target or a stop loss, after every primary
\* order of the call was accepted, and when a primary order of the call was not
\* reduce-only; it is on the side that closes the target position, is reduce-only,
\* and has the size of the target exposure (compared when that is a whole number
\* of lots not below the minimum).
C20_ProtectiveAfterOpeningOrder ==
    Called =>
        \A k \in Protective :
            /\ exec.decision.exitPlan.profit_target > 0 \/ exec.decision.exitPlan.stop_loss > 0
            /\ \A j \in 1..Len(exec.orders) :
                   exec.orders[j].kind = "order" => j < k /\ exec.orders[j].accepted
            /\ \E i \in 1..Len(Primary) : ~Primary[i].reduceOnly
            /\ IsBuy(exec.orders[k].side) = (exec.decision.side = "SHORT")
            /\ exec.orders[k].reduceOnly
            /\ OnLotGrid(exec.decision.quantity) =>
                   exec.orders[k].sz * Unit = exec.decision.quantity

\* C21: a call whose protective order was rejected or threw still reports
\* success, every primary order it sent stays accepted, and no further primary
\* order (none that would cancel or reverse the first) follows the protective one.
C21_ProtectiveFailureNotFatal ==
    Called =>
        \A k \in Protective :
            ~exec.orders[k].accepted =>
                /\ exec.report.success
                /\ Primary # <<>>
                /\ \A i \in 1..Len(Primary) : Primary[i].accepted
                /\ \A j \in 1..Len(exec.orders) : j > k => exec.orders[j].kind # "order"

\* C21 witness: the primary order was accepted, the protective one was not
C21_Witness ==
    /\ Called
    /\ Len(exec.orders) >= 2
    /\ exec.orders[1].kind = "order"
    /\ exec.orders[1].accepted
    /\ ~exec.orders[1].reduceOnly
    /\ \E k \in Protective : ~exec.orders[k].accepted
    /\ exec.report.success

InFlight == watch.started - batch.seq

IterationFailed == batch.exitCode # 0 \/ batch.guardError

\* C22: in the watch loop at most one iteration is in flight, none is in flight
\* while the loop sleeps or stands at its top, and every iteration, also one that
\* failed, is followed by the start of a further one (up to the MaxCmds iterations
\* the model follows).
C22_WatchIterationsSequential ==
    /\ [](/\ InFlight \in {0, 1}
          /\ watch.pc \in {"sleeping", "top"} => InFlight = 0)
    /\ \A n \in 0..(MaxCmds - 1) : (watch.started = n) ~> (watch.started = n + 1)
    /\ \A n \in 1..(MaxCmds - 1) :
           (batch.seq = n /\ IterationFailed) ~> (watch.started = n + 1)

\* C22 witness: a further iteration is in flight after one that failed
C22_Witness ==
    /\ watch.started = 2
    /\ watch.pc = "awaiting"
    /\ batch.seq = 1
    /\ IterationFailed

\* C23: a call that returns a sizing or margin rejection (order size below the
\* instrument minimum, insufficient balance) has submitted no order, in net mode
\* and in dual mode.
C23_NoOrderBeforeAllChecks ==
    (Called /\ exec.report.message \in {"below_minimum", "insufficient_balance"}) =>
        exec.orders = <<>>

\* the order of the call adds exposure on the side already held, or opens from flat
IncreasingWithoutCrossing ==
    /\ TargetSigned # 0
    /\ \/ CurrentSigned = 0
       \/ Sign(CurrentSigned) = Sign(TargetSigned) /\ Abs(TargetSigned) > Abs(CurrentSigned)

\* C24: in net mode with the force-reduce flag unset, a call that increases
\* exposure without crossing zero is rejected for insufficient balance exactly
\* when available < (|target| - |current|) * marketPrice / leverage.
C24_MarginOnIncrementOnly ==
    (Reconciled /\ NetMode /\ ~env.forceReduceOnly /\ IncreasingWithoutCrossing) =>
        (exec.report.message = "insufficient_balance"
            <=> exec.snapshot.available * Leverage(exec.decision)
                    < (Abs(TargetSigned) - Abs(CurrentSigned)) * exec.snapshot.marketPrice)

\* C24 witness: an addition to a held position went through with a balance that
\* covers the increment but not the whole target
C24_Witness ==
    /\ Reconciled /\ NetMode /\ ~env.forceReduceOnly /\ IncreasingWithoutCrossing
    /\ CurrentSigned # 0
    /\ exec.report.success
    /\ Primary # <<>>
    /\ exec.snapshot.available * Leverage(exec.decision)
           < Abs(TargetSigned) * exec.snapshot.marketPrice

\* planned order i is a reduction whose size rounds down to no tradeable contract
SkippedReduction(i) ==
    /\ exec.planned[i].reduceOnly
    /\ exec.planned[i].quantity > 0
    /\ verifyQuantity(exec.planned[i].quantity, venue.meta, "down").contracts = 0

\* C25: in dual mode a call that skipped a reduce-only order of non-tradeable
\* size does not fail for having nothing left to send: it never returns the
\* "no executable orders" failure on account of the skipped reduction.
C25_SkippedReductionNotFailure ==
    (Reconciled /\ DualMode /\ \E i \in 1..Len(exec.planned) : SkippedReduction(i)) =>
        exec.report.message # "no_executable_orders"

\* C26: within one batch at most one executor call is in flight, it is the call
\* for the decision after the last one whose report was attached, and the
\* account snapshot it read is the venue state the previous call left behind.
C26_OneExecutionInFlight ==
    exec.stage = "batch" =>
        /\ Cardinality(exec.inflight) <= 1
        /\ \A c \in exec.inflight :
               /\ c.k = exec.attached + 1
               /\ c.positions = PositionsOf(venue)

\* C26 witness: the second call of a batch is in flight after the first one sent
\* an order
C26_Witness ==
    /\ exec.stage = "batch"
    /\ exec.started = 2
    /\ exec.attached = 1
    /\ exec.lastSent > 0
    /\ exec.inflight # {}

\* the call sent one primary order in net mode and the venue filled all of it
FilledInFull ==
    /\ Reconciled /\ NetMode
    /\ Primary # <<>>
    /\ Primary[1].accepted
    /\ Abs(venue.net - exec.snapshot.net) = Primary[1].sz

\* what a second execute of the same decision returns on the venue state the
\* first one left, for a balance, a price and venue answers of its own
SecondExecute(available, marketPrice, resp) ==
    Dispatch(exec.decision, env, venue, available, marketPrice, resp)

SecondInputs ==
    {<<a, p, r>> : a \in 0..MaxAvail, p \in Prices, r \in {x \in Responses : x.snapshot}}

\* C27 as stated: after a net-mode order that was filled in full, a second
\* execute of the same signal finds the position aligned and submits no order,
\* whatever the target quantity.
C27_ConvergesInOneStep ==
    FilledInFull =>
        \A i \in SecondInputs :
            /\ SecondExecute(i[1], i[2], i[3]).orders = <<>>
            /\ SecondExecute(i[1], i[2], i[3]).report = Report(TRUE, "aligned")

\* C27 amended: the same, for the calls whose |target - current| is a whole
\* number of lots not below the instrument minimum.
C27_ConvergesInOneStepOnLotGrid ==
    (FilledInFull /\ OnLotGrid(Abs(TargetSigned - CurrentSigned))) =>
        \A i \in SecondInputs :
            /\ SecondExecute(i[1], i[2], i[3]).orders = <<>>
            /\ SecondExecute(i[1], i[2], i[3]).report = Report(TRUE, "aligned")

\* C27 witness: an order across zero on a two-unit contract, filled in full,
\* left the position at the target
C27_Witness ==
    /\ FilledInFull
    /\ OnLotGrid(Abs(TargetSigned - CurrentSigned))
    /\ CrossingZero
    /\ Unit = 2
    /\ venue.net * Unit = TargetSigned

\* the balance read by the call covers the margin of primary order i at the
\* size sent to the venue: sz * unit * marketPrice / leverage <= available
MarginCovers(i) ==
    Primary[i].sz * Unit * exec.snapshot.marketPrice
        <= exec.snapshot.available * Leverage(exec.decision)

\* C28: every order that is not reduce-only and was sent after a margin check
\* (net mode without crossing zero, dual mode) has a size whose margin, at the
\* lot-rounded quantity sent, the available balance covered.
C28_MarginCoversOrderSent ==
    (Reconciled /\ (DualMode \/ (NetMode /\ ~CrossingZero))) =>
        \A i \in 1..Len(Primary) : ~Primary[i].reduceOnly => MarginCovers(i)

\* C29: a record or fetch run with --dry-run leaves the signal log and the
\* decision log as they were and hands no decision to the venue executor, so no
\* order is submitted, also when --execute is given.
C29_DryRunNoEffect ==
    [][(batch'.cmd \in {"record", "fetch"} /\ batch'.seq = batch.seq + 1 /\ batch'.dryRun) =>
          /\ signalLog' = signalLog
          /\ decisionLog' = decisionLog
          /\ batch'.execCalls = <<>>]_vars

\* C30: a call of filterBundlesWithState leaves the state it was given as it
\* was: the entry the input state holds for every (agent, symbol) is the same
\* after the call as before it, for agents it already held and for new ones.
C30_InputStateUnmodified ==
    [][wstate'.stage = "filtered" =>
          \A a \in WatchAgents, s \in WatchSymbols :
              Stored(wstate'.state.agents, wstate'.objects, a, s)
                  = Stored(wstate.state.agents, wstate.objects, a, s)]_vars

====
